---- MODULE Spec2Model ----
(***************************************************************************)
(* Two Arduino sketches.                                                   *)
(*                                                                         *)
(* safe-lock/safe-lock.ino: loop() measures the high and the low phase of  *)
(* the IR receiver line in polls of RESOLUTION microseconds, stores the    *)
(* pairs in pulses[], and on a phase of MAXPULSE polls hands the pairs to  *)
(* checkcode(), which decodes them with getvalue() and steps the lock.     *)
(* One step of the lock model is one call of loop().                       *)
(*                                                                         *)
(* The sketch reads PIND, a register of the AVR family, so it is built for *)
(* a target whose int is 16 bits wide: uint16_t * int is computed modulo   *)
(* 2^16.                                                                   *)
(*                                                                         *)
(* TempHumidityMonitor/TempHumidityMonitor.ino: setup() reads the sensor   *)
(* and mails a welcome message; loop() runs every ten seconds, mails the   *)
(* current reading while the boot button is held and calls collectSample() *)
(* every SAMPLE_MINUTES. One step of the monitor model is setup() or one   *)
(* call of loop(). Temperatures are whole degrees; humidity takes part in  *)
(* no decision and is left out.                                            *)
(***************************************************************************)
EXTENDS Integers, Sequences, FiniteSets, TLC

\* ------------------------------------------------------------ lock: data

MAXPULSE == 65000

RESOLUTION == 20

\* uint16_t pulses[100][2]: the number of pairs the array holds.
NPULSES == 100

\* char str[34], strncmp(.., 34): the length of a pattern.
STRLEN == 34

\* if(pos == 8): the length of the code.
CODELEN == 8

\* The longest run of pulse pairs a noise source sends without a pause.
MaxBurst == 257

\* The most pairs of repeat frames a held key sends after its pattern.
MaxRepeat == 2

\* Characters: 0 is '0', 1 is '1', 2 is any other byte.
numstrs ==
  << <<1,1,0,1,0,0,0,1,0,0,1,0,1,1,1,0,1,0,1,0,1,0,0,0,0,1,0,1,0,1,1,1,1,1>>,
     <<1,1,0,1,0,0,0,1,0,0,1,0,1,1,1,0,1,1,0,0,0,0,0,0,0,0,1,1,1,1,1,1,1,1>>,
     <<1,1,0,1,0,0,0,1,0,0,1,0,1,1,1,0,1,0,1,0,0,0,0,0,0,1,0,1,1,1,1,1,1,1>>,
     <<1,1,0,1,0,0,0,1,0,0,1,0,1,1,1,0,1,1,1,0,0,0,0,0,0,0,0,1,1,1,1,1,1,1>>,
     <<1,1,0,1,0,0,0,1,0,0,1,0,1,1,1,0,1,0,0,1,0,0,0,0,0,1,1,0,1,1,1,1,1,1>>,
     <<1,1,0,1,0,0,0,1,0,0,1,0,1,1,1,0,1,1,0,1,0,0,0,0,0,0,1,0,1,1,1,1,1,1>>,
     <<1,1,0,1,0,0,0,1,0,0,1,0,1,1,1,0,1,0,1,1,0,0,0,0,0,1,0,0,1,1,1,1,1,1>>,
     <<1,1,0,1,0,0,0,1,0,0,1,0,1,1,1,0,1,1,1,1,0,0,0,0,0,0,0,0,1,1,1,1,1,1>>,
     <<1,1,0,1,0,0,0,1,0,0,1,0,1,1,1,0,1,0,0,0,1,0,0,0,0,1,1,1,0,1,1,1,1,1>>,
     <<1,1,0,1,0,0,0,1,0,0,1,0,1,1,1,0,1,1,0,0,1,0,0,0,0,0,1,1,0,1,1,1,1,1>> >>

code == <<5, 5, 6, 8, 7, 2, 8, 0>>

\* code[p]; a read outside the array is given the value -2, which no decode returns.
CodeAt(p) == IF p \in 0..(CODELEN - 1) THEN code[p + 1] ELSE -2

VARIABLES
  pulses,        \* the pairs of pulses[] below currentpulse: cells at and after
                 \* currentpulse are rewritten before they are read again
  currentpulse,  \* uint8_t
  servopos,
  pos,           \* static int pos of checkcode()
  key,           \* transmitter: the key being sent, NoKey between bursts
  sent,          \* transmitter: pairs of the current burst sent so far
  captured,      \* pairs stored since currentpulse was last reset by loop()
  runs,          \* <<k, t>>: the k latest checkcode() calls began at pos 0 and
                 \* decoded code[0..k-1]; t of them called togglelock()
  ev             \* what the latest loop() call did

lockVars == <<pulses, currentpulse, servopos, pos, key, sent, captured, runs, ev>>

VARIABLES
  pair,          \* decoding of one pair: the pair stored in pulses[0]
  chars          \* decoding of one pair: the characters written, <<2>> before

decodeVars == <<pair, chars>>

VARIABLES
  mpc,           \* "boot" before setup(), "loop" after it
  numloops,      \* static int numloops of loop()
  sampleNum,     \* static int sampleNum of collectSample()
  sd,            \* static SensorData sd[SAMPLES_PER_DAY]: the temperatures
  priority,      \* the priority held by smtpData
  iter,          \* calls of loop() completed
  presses,       \* loop() calls so far that found the button held
  odd,           \* samples so far that read another temperature than 20
  taken,         \* collectSample() calls so far
  reads,         \* the sensor readings of the latest step, in order
  mails          \* the MailClient.sendMail calls of the latest step, in order

monVars ==
  <<mpc, numloops, sampleNum, sd, priority, iter, presses, odd, taken, reads,
    mails>>

vars == <<lockVars, decodeVars, monVars>>

\* ------------------------------------------------------- lock: functions

\* uint16_t counter after n increments from 0.
U16(n) == n % 65536

\* pulses[i][j] * RESOLUTION: unsigned 16-bit arithmetic.
Scaled(v) == (v * RESOLUTION) % 65536

buzz_flat(good) == <<"tone250">>

\* buzz(good): the tone played.
buzz(good) == IF ~good THEN <<"tone250">> ELSE <<"tone1000">>

togglelock_stuck(sp) == 180

\* togglelock(): the new servopos.
togglelock(sp) == IF sp = 0 THEN 180 ELSE 0

checkcode_early(num, p, sp) ==
  IF num = -1
  THEN [pos |-> 0, servopos |-> sp, out |-> buzz(FALSE)]
  ELSE LET hit == num = CodeAt(p)
           p1  == IF hit THEN p + 1 ELSE 0
       IN  IF p1 = CODELEN - 1
           THEN [pos |-> 0, servopos |-> togglelock(sp),
                 out |-> buzz(hit) \o <<"togglelock">>]
           ELSE [pos |-> p1, servopos |-> sp, out |-> buzz(hit)]

checkcode_noreset(num, p, sp) ==
  IF num = -1
  THEN [pos |-> 0, servopos |-> sp, out |-> buzz(FALSE)]
  ELSE LET hit == num = CodeAt(p)
           p1  == IF hit THEN p + 1 ELSE 0
       IN  IF p1 = CODELEN
           THEN [pos |-> p1, servopos |-> togglelock(sp),
                 out |-> buzz(hit) \o <<"togglelock">>]
           ELSE [pos |-> p1, servopos |-> sp, out |-> buzz(hit)]

checkcode_lenient(num, p, sp) ==
  IF num = -1
  THEN [pos |-> 0, servopos |-> sp, out |-> buzz(FALSE)]
  ELSE LET hit == num = CodeAt(p)
           p1  == IF hit THEN p + 1 ELSE p
       IN  IF p1 = CODELEN
           THEN [pos |-> 0, servopos |-> togglelock(sp),
                 out |-> buzz(hit) \o <<"togglelock">>]
           ELSE [pos |-> p1, servopos |-> sp, out |-> buzz(hit)]

checkcode_keep(num, p, sp) ==
  IF num = -1
  THEN [pos |-> p, servopos |-> sp, out |-> buzz(FALSE)]
  ELSE LET hit == num = CodeAt(p)
           p1  == IF hit THEN p + 1 ELSE 0
       IN  IF p1 = CODELEN
           THEN [pos |-> 0, servopos |-> togglelock(sp),
                 out |-> buzz(hit) \o <<"togglelock">>]
           ELSE [pos |-> p1, servopos |-> sp, out |-> buzz(hit)]

\* checkcode() after num = getvalue(), from position p and servo position sp.
checkcode(num, p, sp) ==
  IF num = -1
  THEN [pos |-> 0, servopos |-> sp, out |-> buzz(FALSE)]
  ELSE LET hit == num = CodeAt(p)
           p1  == IF hit THEN p + 1 ELSE 0
       IN  IF p1 = CODELEN
           THEN [pos |-> 0, servopos |-> togglelock(sp),
                 out |-> buzz(hit) \o <<"togglelock">>]
           ELSE [pos |-> p1, servopos |-> sp, out |-> buzz(hit)]

\* What a read of pulses[i] past the end of the array may yield: 0 is the pair
\* last written there, the others are what another object at that address holds.
OobPair(o, kept) ==
  CASE o = 0 -> kept
    [] o = 1 -> <<28, 28>>
    [] o = 2 -> <<84, 28>>
    [] OTHER -> <<28, 450>>

PulseAt(p, i, o) == IF i < NPULSES THEN p[i + 1] ELSE OobPair(o, p[i + 1])

\* if((pulses[i][1] * RESOLUTION) > 1000) continue;
Skipped(pr) == Scaled(pr[2]) > 1000

NotSkipped(pr) == ~Skipped(pr)

\* The character written for a pair that is not skipped.
BitOf(pr) == IF Scaled(pr[1]) > 1000 THEN 1 ELSE 0

\* The for loop of getvalue(): the characters written to str[0..charpos-1].
\* The loop visits pulses[0..cp-1] in order, writes one character for each
\* pair it does not skip and stops at charpos = 34: it writes the characters
\* of the first 34 pairs that are not skipped.
Decode(p, cp, o) ==
  LET data == SelectSeq([i \in 1..cp |-> PulseAt(p, i - 1, o)], NotSkipped)
      n    == IF Len(data) < STRLEN THEN Len(data) ELSE STRLEN
  IN  [j \in 1..n |-> BitOf(data[j])]

\* char str[34] when it is compared: the characters written, then whatever the
\* stack held (g) in the cells the loop did not write.
StrBuf(bits, g) == bits \o SubSeq(g, Len(bits) + 1, STRLEN)

strncmp_prefix(a, b, n) == IF SubSeq(a, 1, 20) = SubSeq(b, 1, 20) THEN 0 ELSE 1

strncmp(a, b, n) == IF SubSeq(a, 1, n) = SubSeq(b, 1, n) THEN 0 ELSE 1

\* The scan of the table, from entry i.
RECURSIVE Scan(_, _)
Scan(str, i) ==
  IF i >= 10 THEN -1
  ELSE IF strncmp(str, numstrs[i + 1], STRLEN) = 0 THEN i
  ELSE Scan(str, i + 1)

\* getvalue() on pulses p with currentpulse cp, g in the stack cells of str and
\* o deciding the reads past the end of pulses.
getvalue(p, cp, g, o) == Scan(StrBuf(Decode(p, cp, o), g), 0)

\* What the uninitialised str may hold: a pattern of the table (left by an
\* earlier decode in the same stack cells, or by chance) or bytes that match none.
Garbage == {numstrs[i] : i \in 1..10} \cup {[j \in 1..STRLEN |-> 2]}

\* The contents of uninitialised memory that decide the comparison of str once
\* bits are written: a pattern that continues bits, or none (as any content
\* that continues them to no pattern).
Uninitialised(bits) ==
  {g \in Garbage : \/ g = [j \in 1..STRLEN |-> 2]
                   \/ Len(bits) < STRLEN /\ SubSeq(g, 1, Len(bits)) = bits}

\* ---------------------------------------------------- lock: transmitter

NoKey == -1

\* Keys 0..9 send the pattern of numstrs; key 10 sends pairs with a long low
\* phase only (noise that decodes to no character).
Keys == 0..10

\* The n-th pair of the burst of key k after its first pair: 34 data pairs,
\* a long high phase for '1', then repeat frames.
FramePair(k, n) ==
  IF k = 10 THEN <<28, 450>>
  ELSE IF n <= STRLEN + 1 THEN <<IF numstrs[k + 1][n - 1] = 1 THEN 84 ELSE 28, 28>>
  ELSE IF n % 2 = 0 THEN <<2000, 450>>
  ELSE <<112, 28>>

\* The pairs in a burst of key k: the leader, the pattern and the repeats.
BurstLen(k) == IF k = 10 THEN MaxBurst ELSE STRLEN + 1 + MaxRepeat

\* The polls a line may stay idle before a burst: below MAXPULSE, and above it
\* (and above 2^16, where the uint16_t counter has wrapped).
IdleDurations == {4464, 70000}

\* ev: path is the way loop() returned ("pair": both phases stored, "high",
\* "low": the phase that reached MAXPULSE with pairs stored), long whether a
\* phase lasted MAXPULSE polls or more, checked the number of checkcode()
\* calls, posIn and servoIn the position and the servo angle as loop() began,
\* num what getvalue() returned, str the 34 characters decoded (empty when
\* fewer were), out the tones and the togglelock() calls in order.
NoEvent ==
  [path |-> "none", long |-> FALSE, checked |-> 0, posIn |-> 0, servoIn |-> 0,
   num |-> -1, str |-> <<>>, out |-> <<>>]

Has(out, what) == \E j \in 1..Len(out) : out[j] = what

Ran(num, p, toggled) ==
  {<<r[1] + 1, r[2] + toggled>> :
     r \in {x \in runs : x[1] < CODELEN /\ num = code[x[1] + 1]}}
    \cup (IF p = 0 /\ num = code[1] THEN {<<1, toggled>>} ELSE {})

\* ------------------------------------------------------- lock: loop()

\* A phase reached MAXPULSE polls with pairs stored: checkcode(), then
\* currentpulse = 0 and return.
EndOfCode(path) ==
  \E o \in (IF currentpulse > NPULSES THEN 0..3 ELSE {0}) :
    \E bits \in {Decode(pulses, currentpulse, o)} :
      \E g \in Uninitialised(bits) :
        \E num \in {getvalue(pulses, currentpulse, g, o)} :
          \E r \in {checkcode(num, pos, servopos)} :
            /\ pos' = r.pos
            /\ servopos' = r.servopos
            /\ currentpulse' = 0
            /\ pulses' = <<>>
            /\ captured' = 0
            /\ runs' = Ran(num, pos, IF Has(r.out, "togglelock") THEN 1 ELSE 0)
            /\ ev' = [path |-> path, long |-> TRUE, checked |-> 1,
                      posIn |-> pos, servoIn |-> servopos, num |-> num,
                      str |-> IF Len(bits) = STRLEN THEN bits ELSE <<>>,
                      out |-> r.out]

\* One call of loop() while the line stays high for hd polls and then low for
\* ld polls. The "pair" and the "low" path write pulses[currentpulse].
loop_nocheck(hd, ld) ==
  IF hd >= MAXPULSE
  THEN EndOfCode("high")
  ELSE IF ld >= MAXPULSE
  THEN EndOfCode("low")
  ELSE /\ pulses' = Append(pulses, <<U16(hd), U16(ld)>>)
       /\ currentpulse' = (currentpulse + 1) % 256
       /\ captured' = captured + 1
       /\ ev' = [NoEvent EXCEPT !.path = "pair", !.posIn = pos,
                                !.servoIn = servopos,
                                !.long = hd >= MAXPULSE \/ ld >= MAXPULSE]
       /\ UNCHANGED <<pos, servopos, runs>>

loop(hd, ld) ==
  IF hd >= MAXPULSE /\ currentpulse # 0
  THEN EndOfCode("high")
  ELSE IF ld >= MAXPULSE /\ currentpulse # 0
  THEN EndOfCode("low")
  ELSE /\ pulses' = Append(pulses, <<U16(hd), U16(ld)>>)
       /\ currentpulse' = (currentpulse + 1) % 256
       /\ captured' = captured + 1
       /\ ev' = [NoEvent EXCEPT !.path = "pair", !.posIn = pos,
                                !.servoIn = servopos,
                                !.long = hd >= MAXPULSE \/ ld >= MAXPULSE]
       /\ UNCHANGED <<pos, servopos, runs>>

TimesOut(hd, ld) == currentpulse # 0 /\ (hd >= MAXPULSE \/ ld >= MAXPULSE)

\* A key is pressed after the line was idle for hd polls.
Press(k, hd) ==
  /\ key = NoKey
  /\ captured < MaxBurst
  /\ loop(hd, 450)
  /\ key' = k
  /\ sent' = 1
  /\ UNCHANGED <<decodeVars, monVars>>

\* The next pair of the burst.
Pulse ==
  /\ key # NoKey
  /\ captured < MaxBurst
  /\ sent < BurstLen(key)
  /\ LET pr == FramePair(key, sent + 1) IN loop(pr[1], pr[2])
  /\ sent' = sent + 1
  /\ UNCHANGED <<key, decodeVars, monVars>>

\* The burst ends: the line stays high for hd >= MAXPULSE polls; if loop() goes
\* on waiting, key k follows.
ReleaseHigh(k, hd) ==
  /\ key # NoKey
  /\ hd >= MAXPULSE
  /\ captured < MaxBurst
  /\ k = NoKey <=> TimesOut(hd, 450)
  /\ loop(hd, 450)
  /\ key' = k
  /\ sent' = IF k = NoKey THEN 0 ELSE 1
  /\ UNCHANGED <<decodeVars, monVars>>

\* The burst ends with the line held low for ld >= MAXPULSE polls.
ReleaseLow(k, ld) ==
  /\ key # NoKey
  /\ ld >= MAXPULSE
  /\ captured < MaxBurst
  /\ k = NoKey <=> TimesOut(28, ld)
  /\ loop(28, ld)
  /\ key' = k
  /\ sent' = IF k = NoKey THEN 0 ELSE 1
  /\ UNCHANGED <<decodeVars, monVars>>

LockInit ==
  /\ pulses = <<>>
  /\ currentpulse = 0
  /\ servopos = 0
  /\ pos = 0
  /\ key = NoKey
  /\ sent = 0
  /\ captured = 0
  /\ runs = {}
  /\ ev = NoEvent

DecodeIdle == pair = <<0, 0>> /\ chars = <<2>>

\* ------------------------------------------------------- monitor: data

SAMPLE_MINUTES == 30

SAMPLES_PER_DAY == (24 * 60) \div SAMPLE_MINUTES

MIN_TEMP == 10

MAX_TEMP == 45

\* The calls of loop() a behaviour runs for.
MaxIter == 17290

\* The calls of loop() that find the button held.
MaxPresses == 1

\* The samples that read another temperature than 20.
MaxOdd == 1

\* The slots of sd at which a sample may read another temperature than 20.
OddSlots == {0, SAMPLES_PER_DAY - 1}

OddTemps == {9, 10, 45, 46}

\* What the sensor may read for the sample stored in slot n: every odd
\* temperature in the last slot of the day, the lowest one in the others.
SampleTemps(n) ==
  IF odd < MaxOdd /\ n \in OddSlots
  THEN {20} \cup (IF n = SAMPLES_PER_DAY - 1 THEN OddTemps ELSE {9})
  ELSE {20}

\* What the sensor may read at startup and while the button is held.
SpotTemps == {5, 20, 50}

MonitorInit ==
  /\ mpc = "boot"
  /\ numloops = 0
  /\ sampleNum = 0
  /\ sd = [i \in 1..SAMPLES_PER_DAY |-> 0]
  /\ priority = "default"
  /\ iter = 0
  /\ presses = 0
  /\ odd = 0
  /\ taken = 0
  /\ reads = <<>>
  /\ mails = <<>>

\* -------------------------------------------------- monitor: functions

\* One MailClient.sendMail(smtpData) call: the message sent (temp: the reading
\* it reports, -1 for none), the priority smtpData held and whether it went.
Mail(kind, prio, temp, ok) ==
  [kind |-> kind, priority |-> prio, temp |-> temp, ok |-> ok]

Reading(who, t) == [who |-> who, temp |-> t]

sendWelcomeMsg(t, prio, ok) == <<Mail("welcome", prio, t, ok)>>

sendOnDemandMsg_retry(t, prio, ok) ==
  IF ok THEN <<Mail("ondemand", prio, t, ok)>>
  ELSE <<Mail("ondemand", prio, t, ok), Mail("ondemand", prio, t, TRUE)>>

sendOnDemandMsg(t, prio, ok) == <<Mail("ondemand", prio, t, ok)>>

sendDailyMsg(s, prio, ok) == <<Mail("daily", prio, -1, ok)>>

sendThresholdMsg_sticky(s, idx, ok) ==
  [mails |-> <<Mail("threshold", "High", s[idx + 1], ok)>>,
   priority |-> IF ok THEN "Normal" ELSE "High"]

\* sendThresholdMsg(sd, idx): the mail, sent with priority High, and the
\* priority set afterwards.
sendThresholdMsg(s, idx, ok) ==
  [mails |-> <<Mail("threshold", "High", s[idx + 1], ok)>>, priority |-> "Normal"]

Crossed_inclusive(t) == t <= MIN_TEMP \/ t >= MAX_TEMP

\* sd[sampleNum].temp < MIN_TEMP || sd[sampleNum].temp > MAX_TEMP
Crossed(t) == t < MIN_TEMP \/ t > MAX_TEMP

collectSample_offbyone(s, n, prio, t, okT, okD) ==
  LET s1   == [s EXCEPT ![n + 1] = t]
      th   == IF Crossed(s1[n + 1])
              THEN sendThresholdMsg(s1, n, okT)
              ELSE [mails |-> <<>>, priority |-> prio]
      n1   == n + 1
      wrap == n1 > SAMPLES_PER_DAY
  IN  [sd |-> s1,
       sampleNum |-> IF wrap THEN 0 ELSE n1,
       priority |-> th.priority,
       mails |-> th.mails \o (IF wrap THEN sendDailyMsg(s1, th.priority, okD)
                                      ELSE <<>>)]

\* collectSample() when the sensor reads t: the new sd, sampleNum and priority
\* and the mails sent; okT and okD say whether the threshold and the daily
\* mail go through.
collectSample(s, n, prio, t, okT, okD) ==
  LET s1   == [s EXCEPT ![n + 1] = t]
      th   == IF Crossed(s1[n + 1])
              THEN sendThresholdMsg(s1, n, okT)
              ELSE [mails |-> <<>>, priority |-> prio]
      n1   == n + 1
      wrap == n1 >= SAMPLES_PER_DAY
  IN  [sd |-> s1,
       sampleNum |-> IF wrap THEN 0 ELSE n1,
       priority |-> th.priority,
       mails |-> th.mails \o (IF wrap THEN sendDailyMsg(s1, th.priority, okD)
                                      ELSE <<>>)]

\* --------------------------------------------------- monitor: actions

\* setup(): two readings, the second one mailed.
setup(t1, t2, ok) ==
  /\ mpc = "boot"
  /\ mpc' = "loop"
  /\ reads' = <<Reading("discarded", t1), Reading("welcome", t2)>>
  /\ mails' = sendWelcomeMsg(t2, priority, ok)
  /\ UNCHANGED <<numloops, sampleNum, sd, priority, iter, presses, odd, taken>>
  /\ UNCHANGED <<lockVars, decodeVars>>

Sampling_noinc(r0, m0) ==
  IF numloops * 10 >= SAMPLE_MINUTES * 60
  THEN \E t \in SampleTemps(sampleNum) :
       \E okT \in (IF Crossed(t) THEN BOOLEAN ELSE {TRUE}) :
       \E okD \in (IF sampleNum + 1 >= SAMPLES_PER_DAY THEN BOOLEAN ELSE {TRUE}) :
       \E c \in {collectSample(sd, sampleNum, priority, t, okT, okD)} :
         /\ sd' = c.sd
         /\ sampleNum' = c.sampleNum
         /\ priority' = c.priority
         /\ reads' = r0 \o <<Reading("sample", t)>>
         /\ mails' = m0 \o c.mails
         /\ odd' = IF t = 20 THEN odd ELSE odd + 1
         /\ taken' = taken + 1
         /\ numloops' = 0
  ELSE /\ reads' = r0
       /\ mails' = m0
       /\ numloops' = numloops + 1
       /\ UNCHANGED <<sd, sampleNum, priority, odd, taken>>

\* The second half of loop(): the sample when it is due, then numloops += 1.
\* r0 and m0 are the reading and the mail of the first half.
Sampling(r0, m0) ==
  IF numloops * 10 >= SAMPLE_MINUTES * 60
  THEN \E t \in SampleTemps(sampleNum) :
       \E okT \in (IF Crossed(t) THEN BOOLEAN ELSE {TRUE}) :
       \E okD \in (IF sampleNum + 1 >= SAMPLES_PER_DAY THEN BOOLEAN ELSE {TRUE}) :
       \E c \in {collectSample(sd, sampleNum, priority, t, okT, okD)} :
         /\ sd' = c.sd
         /\ sampleNum' = c.sampleNum
         /\ priority' = c.priority
         /\ reads' = r0 \o <<Reading("sample", t)>>
         /\ mails' = m0 \o c.mails
         /\ odd' = IF t = 20 THEN odd ELSE odd + 1
         /\ taken' = taken + 1
         /\ numloops' = 0 + 1
  ELSE /\ reads' = r0
       /\ mails' = m0
       /\ numloops' = numloops + 1
       /\ UNCHANGED <<sd, sampleNum, priority, odd, taken>>

\* loop() with the button released.
Tick ==
  /\ mpc = "loop"
  /\ iter < MaxIter
  /\ Sampling(<<>>, <<>>)
  /\ iter' = iter + 1
  /\ UNCHANGED <<mpc, presses, lockVars, decodeVars>>

\* loop() with the button held: the sensor reads t and the mail goes or fails.
TickPressed(t, ok) ==
  /\ mpc = "loop"
  /\ iter < MaxIter
  /\ presses < MaxPresses
  /\ Sampling(<<Reading("ondemand", t)>>, sendOnDemandMsg(t, priority, ok))
  /\ iter' = iter + 1
  /\ presses' = presses + 1
  /\ UNCHANGED <<mpc, lockVars, decodeVars>>

\* --------------------------------------------------------- specifications

Init == LockInit /\ DecodeIdle /\ MonitorInit

Next ==
  \/ \E k \in Keys, hd \in IdleDurations : Press(k, hd)
  \/ Pulse
  \/ \E k \in Keys \cup {NoKey} : ReleaseHigh(k, MAXPULSE)
  \/ \E k \in Keys \cup {NoKey} : ReleaseLow(k, MAXPULSE)

\* The lock.
Spec == Init /\ [][Next]_vars

\* The counter values tried for one stored pair.
SampleCounts ==
  {0, 28, 50, 51, 84, 450, 3276, 3277, 3326, 3327, 6553, 6554, 64999, 65535}

DecodeInit ==
  /\ LockInit
  /\ MonitorInit
  /\ pair \in SampleCounts \X SampleCounts
  /\ chars = <<2>>

\* The for loop of getvalue() on pulses[0] = pair, currentpulse = 1.
DecodePair ==
  /\ chars = <<2>>
  /\ chars' = Decode(<<pair>>, 1, 0)
  /\ UNCHANGED <<pair, lockVars, monVars>>

\* The decoding of one stored pair.
SpecDecode == DecodeInit /\ [][DecodePair]_vars

MonitorNext ==
  \/ \E t1, t2 \in SpotTemps, ok \in BOOLEAN : setup(t1, t2, ok)
  \/ Tick
  \/ \E t \in SpotTemps, ok \in BOOLEAN : TickPressed(t, ok)

\* The monitor.
SpecMonitor == Init /\ [][MonitorNext]_vars

\* ------------------------------------------------------------ lock: claims

\* C1: from position 0, eight checkcode() calls in a row that decode
\* 5,5,6,8,7,2,8,0 call togglelock() once, in the eighth call and in none of
\* the first seven, and leave the position at 0.
C1_CodeTogglesAtEighth ==
  \A r \in runs :
    /\ r[1] < CODELEN => r[2] = 0
    /\ r[1] = CODELEN => r[2] = 1 /\ pos = 0
    /\ r[1] = CODELEN /\ ev.checked = 1 => Has(ev.out, "togglelock")

C1_Witness == <<CODELEN, 1>> \in runs /\ ev.checked = 1

\* C2: at every position a checkcode() call that decodes no match or a digit
\* other than code[pos] sets the position to 0, plays the failure tone and
\* leaves the servo alone.
C2_WrongDigitResets ==
  ev.checked = 1 /\ ev.num # CodeAt(ev.posIn)
    => pos = 0 /\ servopos = ev.servoIn /\ ev.out = buzz(FALSE)

C2_Witness == ev.checked = 1 /\ ev.posIn = 7 /\ ev.num = 3 /\ servopos = 180

\* C3: a sequence of fewer than 34 pulse pairs decodes to no match (-1).
C3_ShortIsNoMatch ==
  [][ev'.checked = 1 /\ currentpulse < STRLEN => ev'.num = -1]_vars

\* C4: loop() writes pulses[currentpulse] only at indices 0..99.
C4_WritesInsideArray ==
  [][ev'.path \in {"pair", "low"} => currentpulse \in 0..(NPULSES - 1)]_vars

\* C5: a decoded 34-character string equal to entry i of numstrs makes
\* getvalue() return i.
C5_PatternGivesItsIndex ==
  \A i \in 0..9 : ev.checked = 1 /\ ev.str = numstrs[i + 1] => ev.num = i

C5_Witness == ev.checked = 1 /\ ev.str = numstrs[3] /\ ev.num = 2

\* C6: a phase of MAXPULSE polls after at least one captured pair makes loop()
\* call checkcode() once on the pairs captured since the last reset and then
\* set currentpulse to 0.
C6_TimeoutDecodesCaptured ==
  [][ev'.long /\ captured > 0
       => ev'.checked = 1 /\ currentpulse = captured /\ currentpulse' = 0]_vars

\* C7: a phase of MAXPULSE polls while currentpulse = 0 calls no checkcode():
\* position and servo keep their values and no tone is played.
C7_IdleTimeoutIgnored ==
  [][ev'.long /\ currentpulse = 0
       => ev'.checked = 0 /\ pos' = pos /\ servopos' = servopos
          /\ ev'.out = <<>>]_vars

C7_Witness ==
  ev.long /\ ev.path = "pair" /\ ev.checked = 0 /\ captured = 1 /\ pos = 3

\* C9: servopos starts at 0, is always 0 or 180, changes only in a
\* togglelock() call, and every togglelock() call flips it.
C9_ServoFlips ==
  /\ servopos = 0
  /\ [](servopos \in {0, 180})
  /\ [][/\ servopos' # servopos => Has(ev'.out, "togglelock")
        /\ Has(ev'.out, "togglelock") => servopos' = 180 - servopos]_vars

C9_Witness == Has(ev.out, "togglelock") /\ ev.servoIn = 180 /\ servopos = 0

\* C8: getvalue() skips a pair exactly when low * RESOLUTION > 1000 and writes
\* '1' for a pair it keeps exactly when high * RESOLUTION > 1000, the products
\* taken over the integers.
C8_ClassifiesAsIntegers ==
  chars # <<2>>
    => chars = IF pair[2] * RESOLUTION > 1000 THEN <<>>
               ELSE IF pair[1] * RESOLUTION > 1000 THEN <<1>>
               ELSE <<0>>

\* --------------------------------------------------------- monitor: claims

\* C10: every reading used (at startup for the welcome mail, on demand, or as
\* a sample) that is below MIN_TEMP or above MAX_TEMP has a threshold warning
\* sent for it.
C10_EveryCrossingWarned ==
  \A j \in 1..Len(reads) :
    reads[j].who # "discarded" /\ (reads[j].temp < MIN_TEMP \/ reads[j].temp > MAX_TEMP)
      => \E m \in 1..Len(mails) :
           mails[m].kind = "threshold" /\ mails[m].temp = reads[j].temp

\* The mails of one kind among ms, in order.
OfKind(ms, kind) == SelectSeq(ms, LAMBDA m : m.kind = kind)

\* The readings of one caller among rs, in order.
ReadBy(rs, who) == SelectSeq(rs, LAMBDA r : r.who = who)

\* The calls of loop() between two samples, and between two daily summaries.
SamplePeriod == (SAMPLE_MINUTES * 60) \div 10

DayPeriod == SAMPLES_PER_DAY * SamplePeriod

\* C11: sendDailyMsg() is called in exactly the collectSample() calls that are
\* the 48th since startup or since the previous summary, as the last mail of
\* the call, with the sample stored in sd[47] and sampleNum back at 0; these are
\* the loop() calls of zero-based index 8640, 17280, ... and no others.
C11_DailyAtFortyEighth ==
  LET daily   == OfKind(mails, "daily")
      samples == ReadBy(reads, "sample")
  IN  /\ Len(daily) = IF Len(samples) = 1 /\ taken % SAMPLES_PER_DAY = 0
                      THEN 1 ELSE 0
      /\ Len(daily) = IF iter > 1 /\ (iter - 1) % DayPeriod = 0 THEN 1 ELSE 0
      /\ Len(daily) = 1 => /\ sampleNum = 0
                           /\ sd[SAMPLES_PER_DAY] = samples[1].temp
                           /\ mails[Len(mails)].kind = "daily"

C11_Witness ==
  Len(OfKind(mails, "daily")) = 1 /\ taken = 2 * SAMPLES_PER_DAY
    /\ iter = 2 * DayPeriod + 1

\* C12: every call of a send function makes one MailClient.sendMail call,
\* sent or failed, and numloops, sampleNum and sd after a step are what the
\* readings alone decide: a failed send changes none of them.
C12_FailedSendChangesNothing ==
  [][IF mpc = "boot"
     THEN /\ Len(mails') = 1 /\ mails'[1].kind = "welcome"
          /\ UNCHANGED <<numloops, sampleNum, sd>>
     ELSE LET due     == numloops * 10 >= SAMPLE_MINUTES * 60
              samples == ReadBy(reads', "sample")
              t       == samples[1].temp
              warned  == due /\ (t < MIN_TEMP \/ t > MAX_TEMP)
              wrapped == due /\ sampleNum = SAMPLES_PER_DAY - 1
          IN  /\ Len(samples) = IF due THEN 1 ELSE 0
              /\ Len(OfKind(mails', "ondemand")) = Len(ReadBy(reads', "ondemand"))
              /\ Len(OfKind(mails', "threshold")) = IF warned THEN 1 ELSE 0
              /\ Len(OfKind(mails', "daily")) = IF wrapped THEN 1 ELSE 0
              /\ Len(OfKind(mails', "welcome")) = 0
              /\ Len(mails') = Len(ReadBy(reads', "ondemand"))
                                 + (IF warned THEN 1 ELSE 0)
                                 + (IF wrapped THEN 1 ELSE 0)
              /\ numloops' = IF due THEN 1 ELSE numloops + 1
              /\ sampleNum' = IF due THEN (sampleNum + 1) % SAMPLES_PER_DAY
                                     ELSE sampleNum
              /\ sd' = IF due THEN [sd EXCEPT ![sampleNum + 1] = t] ELSE sd]_vars

C12_Witness ==
  /\ Len(mails) = 3
  /\ \A j \in 1..3 : ~mails[j].ok
  /\ sampleNum = 0
  /\ numloops = 1
  /\ sd[SAMPLES_PER_DAY] = 46

\* C13: collectSample() is called in exactly the loop() calls whose
\* zero-based index is a positive multiple of 180, once in each.
C13_SampleEvery180 ==
  Len(ReadBy(reads, "sample"))
    = IF iter > 1 /\ (iter - 1) % 180 = 0 THEN 1 ELSE 0

C13_Witness ==
  Len(ReadBy(reads, "sample")) = 1 /\ iter = 361 /\ taken = 2 /\ numloops = 1

\* The slots of sd that collectSample() has stored a reading in; the others
\* hold the zeros the static array starts with.
Written == {i \in 1..SAMPLES_PER_DAY : i <= taken}

\* C14: when a daily summary or a threshold warning is sent, each of the 48
\* values of sd it lists is a reading collectSample() stored.
C14_ListedAreReadings ==
  Len(OfKind(mails, "daily")) + Len(OfKind(mails, "threshold")) > 0
    => \A i \in 1..SAMPLES_PER_DAY : i \in Written

\* C15: a collectSample() call sends one threshold warning, reporting the
\* temperature just stored, when that temperature is below 10 or above 45, and
\* none when it is 10..45; the warning precedes the daily summary of the same
\* call. No warning is sent outside collectSample().
C15_WarningIffOutside ==
  LET samples == ReadBy(reads, "sample")
      warns   == OfKind(mails, "threshold")
  IN  /\ Len(samples) = 0 => Len(warns) = 0
      /\ Len(samples) = 1 =>
            LET t == samples[1].temp
            IN  /\ Len(warns) = IF t < 10 \/ t > 45 THEN 1 ELSE 0
                /\ Len(warns) = 1 =>
                      /\ warns[1].temp = t
                      /\ t = sd[((sampleNum + SAMPLES_PER_DAY - 1) % SAMPLES_PER_DAY) + 1]
                      /\ \A j \in 1..Len(mails) :
                           mails[j].kind = "daily"
                             => \E k \in 1..(j - 1) : mails[k].kind = "threshold"

C15_Witness ==
  /\ Len(mails) = 2
  /\ mails[1].kind = "threshold" /\ mails[1].temp = 46
  /\ mails[2].kind = "daily"
  /\ sampleNum = 0

\* C19: a mail is sent with priority High exactly when it is a threshold
\* warning, and the priority is not High once sendThresholdMsg() has returned,
\* whether the warning was sent or failed.
C19_HighOnlyInWarning ==
  /\ priority # "High"
  /\ \A j \in 1..Len(mails) :
       mails[j].priority = "High" <=> mails[j].kind = "threshold"

C19_Witness ==
  /\ Len(mails) = 3
  /\ mails[1].kind = "ondemand" /\ mails[1].priority = "default"
  /\ mails[2].kind = "threshold" /\ ~mails[2].ok
  /\ mails[3].kind = "daily" /\ mails[3].priority = "Normal"

\* ------------------------------------------------------------ lock: claims

\* The tones among the outputs of a call, in order.
Tones(out) == SelectSeq(out, LAMBDA x : x # "togglelock")

\* C16: a checkcode() call plays one tone, first of all it does: the success
\* tone when getvalue() returned code[pos] for the pos held at entry, the
\* failure tone otherwise; a togglelock() call comes after the success tone.
C16_OneCuePerCall ==
  ev.checked = 1 =>
    /\ Len(Tones(ev.out)) = 1
    /\ ev.out[1] = IF ev.posIn \in 0..7 /\ ev.num = code[ev.posIn + 1]
                   THEN "tone1000" ELSE "tone250"
    /\ Has(ev.out, "togglelock") => ev.out = <<"tone1000", "togglelock">>

C16_Witness == ev.checked = 1 /\ ev.out = <<"tone1000", "togglelock">>

\* C17: pos is in 0..7 when a checkcode() call begins and when it returns.
C17_PosInsideCode ==
  /\ pos \in 0..7
  /\ ev.posIn \in 0..7

C17_Witness ==
  ev.checked = 1 /\ ev.posIn = 7 /\ ev.num = code[8] /\ pos = 0

\* C18: togglelock() is called, and the servo moved, only by a checkcode()
\* call that ends eight calls in a row decoding 5,5,6,8,7,2,8,0 with no
\* togglelock() call among the first seven.
C18_ToggleOnlyAfterCode ==
  /\ Has(ev.out, "togglelock") => ev.checked = 1 /\ <<CODELEN, 1>> \in runs
  /\ servopos # ev.servoIn => Has(ev.out, "togglelock")

C18_Witness ==
  Has(ev.out, "togglelock") /\ <<CODELEN, 1>> \in runs /\ ev.servoIn = 0
    /\ servopos = 180

====
